---- MODULE Spec2Model ----
(***************************************************************************)
(* Model of VIO::VisionFrontEnd<InputT, OutputT>                           *)
(* (include/kimera-vio/frontend/VisionFrontEnd.h): the bootstrap/nominal   *)
(* lifecycle, the dispatch of spinOnce, the mono outlier-rejection policy  *)
(* and the accessors that other threads call while spinOnce runs.          *)
(*                                                                         *)
(* The estimation thread is EST; CallerThreads are the threads that call   *)
(* the thread-safe accessors.  The pure-virtual handlers, the derived      *)
(* class constructor, the ImuFrontEnd and the Tracker are not part of the  *)
(* header: they are modelled from the specification.                       *)
(***************************************************************************)
EXTENDS Integers, Sequences, FiniteSets, TLC

\* ------------------------------------------------------------------ bounds
MaxSpins == 3        \* spinOnce calls issued by the harness

\* ------------------------------------------------------------------ values
EST == "est"
CallerThreads == {"t1"}
Threads == {EST} \cup CallerThreads

\* enum class FrontendState { Bootstrap = 0u, Nominal = 1u }
FrontendState == {"Bootstrap", "Nominal"}

\* TrackingStatus codes a kernel can return.
TrackingStatus == {"VALID", "INVALID", "FEW_MATCHES"}

\* Relative poses; PoseDefault is the default-constructed pose.
PoseDefault == 0
Poses == {PoseDefault, 1, 2}

\* Prior rotations handed to outlierRejectionMono.
Rot3Identity == "identity"
Rot3 == {Rot3Identity, "rotZ30"}

\* ImuBias values: a pair <<accelerometer, gyroscope>>.
ImuBiasInitial == <<0, 0>>
ImuBiasInputs == {<<1, 1>>, <<2, 2>>}

\* Gravity vectors.
GravityInitial == 0
GravityInputs == {1, 2}

NoValue == "none"
NoReturn == [op |-> NoValue, val |-> NoValue]

VARIABLES
  frontend_state_,          \* std::atomic<FrontendState>
  frame_count_,             \* int
  keyframe_count_,          \* int
  last_keyframe_timestamp_, \* Timestamp
  imu_frontend_,            \* "nullptr" or "set"
  tracker_,                 \* "nullptr" or "set"
  tracker_status_summary_,  \* [kfTrackingStatus_mono_, lkf_T_k_mono_]
  ransac_use_2point_mono_,  \* tracker_->tracker_params_.ransac_use_2point_mono_
  latest_imu_bias_,         \* ImuFrontEnd: the cached bias, <<acc, gyro>>
  pim_bias,                 \* ImuFrontEnd: the bias the pre-integration was reset with
  n_gravity,                \* ImuFrontEnd: the pre-integration gravity
  imu_bias_mutex_,          \* ImuFrontEnd: "free" or the thread holding the mutex
  pc,                       \* position of every thread
  local,                    \* per thread: the argument or the partial read of the call in flight
  ret,                      \* per thread: [op, val] of the last accessor call that returned
  sw,                       \* the value spinOnce's switch read
  invoked,                  \* handlers invoked by the latest spinOnce call, in order
  spin_calls,               \* spinOnce calls that have returned
  output,                   \* the handler whose output the last spinOnce call returned
  status_pose_mono,         \* *status_pose_mono after the last outlierRejectionMono
  kernels_run,              \* kernels run by the last outlierRejectionMono, in order
  pose_origin,              \* who wrote lkf_T_k_mono_: "ctor", the "latest" pass, an "earlier" pass
  selections,               \* every [flag, rot, state, kernel] selection made so far
  observed_nominal,         \* per caller thread: an isInitialized call has returned true
  bias_passed,              \* bias values passed to an update so far
  bias_finalized,           \* bias held at the transition to Nominal, and those written since
  gravity_finalized         \* gravity held at the transition to Nominal, and those written since

vars == << frontend_state_, frame_count_, keyframe_count_, last_keyframe_timestamp_,
           imu_frontend_, tracker_, tracker_status_summary_, ransac_use_2point_mono_,
           latest_imu_bias_, pim_bias, n_gravity, imu_bias_mutex_,
           pc, local, ret, sw, invoked, spin_calls, output, status_pose_mono,
           kernels_run,
           pose_origin, selections, observed_nominal, bias_passed, bias_finalized,
           gravity_finalized >>

controller_vars == << frontend_state_, frame_count_, keyframe_count_,
                      last_keyframe_timestamp_, imu_frontend_, tracker_,
                      tracker_status_summary_ >>
tracker_vars == << ransac_use_2point_mono_, status_pose_mono, kernels_run, pose_origin,
                   selections >>
imu_vars == << latest_imu_bias_, pim_bias, n_gravity, imu_bias_mutex_ >>
spin_vars == << sw, invoked, spin_calls, output >>
history_vars == << observed_nominal, bias_passed, bias_finalized, gravity_finalized >>

\* ------------------------------------------------------------ construction
\* TrackerStatusSummary(): the default-constructed summary.
TrackerStatusSummaryDefault ==
  [kfTrackingStatus_mono_ |-> "INVALID", lkf_T_k_mono_ |-> PoseDefault]

\* A constructor that starts the front end in the running state.
InitialFrontendState_Nominal == "Nominal"

\* The lifecycle state the constructor's initialiser list sets.
InitialFrontendState == "Bootstrap"

\* A constructor that starts the counters at one.
InitialCount_One == 0 + 1

\* The counters the constructor's initialiser list sets.
InitialCount == 0

\* A constructor whose body does not create the ImuFrontEnd.
InitialImuFrontEnd_Null == "nullptr"

\* imu_frontend_ when the constructor's body has run: make_unique<ImuFrontEnd>.
InitialImuFrontEnd == "set"

\* VisionFrontEnd(imu_params, imu_initial_bias, display_queue, log_output): the
\* state when the base-class constructor returns.  The derived constructor
\* runs next (pc[EST] = "ctor").
Init ==
  /\ frontend_state_ = InitialFrontendState
  /\ frame_count_ = InitialCount
  /\ keyframe_count_ = InitialCount
  /\ last_keyframe_timestamp_ = 0
  /\ imu_frontend_ = InitialImuFrontEnd
  /\ tracker_ = "nullptr"
  /\ tracker_status_summary_ = TrackerStatusSummaryDefault
  /\ ransac_use_2point_mono_ \in BOOLEAN
  /\ latest_imu_bias_ = ImuBiasInitial
  /\ pim_bias = ImuBiasInitial
  /\ n_gravity = GravityInitial
  /\ imu_bias_mutex_ = "free"
  /\ pc = [t \in Threads |-> IF t = EST THEN "ctor" ELSE "idle"]
  /\ local = [t \in Threads |-> NoValue]
  /\ ret = [t \in Threads |-> NoReturn]
  /\ sw = NoValue
  /\ invoked = << >>
  /\ spin_calls = 0
  /\ output = NoValue
  /\ status_pose_mono = << NoValue, PoseDefault >>
  /\ kernels_run = << >>
  /\ pose_origin = "ctor"
  /\ selections = {}
  /\ observed_nominal = [t \in CallerThreads |-> FALSE]
  /\ bias_passed = {}
  /\ bias_finalized = {}
  /\ gravity_finalized = {}

\* The derived front end's constructor creates the tracker.
DerivedConstructor ==
  /\ pc[EST] = "ctor"
  /\ tracker_' = "set"
  /\ pc' = [pc EXCEPT ![EST] = "idle"]
  /\ UNCHANGED << frontend_state_, frame_count_, keyframe_count_,
                  last_keyframe_timestamp_, imu_frontend_, tracker_status_summary_,
                  tracker_vars, imu_vars, local, ret, spin_vars, history_vars >>

\* LOG(FATAL) and a failed CHECK abort the process: no thread takes a step.
ProcessAlive == pc[EST] # "fatal"

\* The object is fully constructed: other threads can hold a reference to it
\* and call it, as long as the process runs.
Constructed == pc[EST] # "ctor" /\ ProcessAlive

\* ---------------------------------------------------------------- spinOnce
\* A switch whose case labels are exchanged.
SpinOnceDispatch_Swapped(s) ==
  IF s = "Bootstrap" THEN "nominalSpin"
  ELSE IF s = "Nominal" THEN "bootstrapSpin"
  ELSE "fatal"

\* A switch whose default label falls into the nominal handler.
SpinOnceDispatch_DefaultNominal(s) ==
  IF s = "Bootstrap" THEN "bootstrapSpin" ELSE "nominalSpin"

\* switch (frontend_state_): the handler for the value read.
SpinOnceDispatch(s) ==
  IF s = "Bootstrap" THEN "bootstrapSpin"
  ELSE IF s = "Nominal" THEN "nominalSpin"
  ELSE "fatal"

\* A spinOnce that gives up on the bootstrap after two unsuccessful calls.
SpinOnce_RetryLimit ==
  /\ pc[EST] = "idle"
  /\ spin_calls < MaxSpins
  /\ sw' = frontend_state_
  /\ IF frontend_state_ = "Bootstrap" /\ spin_calls >= 2
       THEN invoked' = << >> /\ pc' = [pc EXCEPT ![EST] = "fatal"]
       ELSE /\ invoked' = << SpinOnceDispatch(frontend_state_) >>
            /\ pc' = [pc EXCEPT ![EST] = SpinOnceDispatch(frontend_state_)]
  /\ UNCHANGED << controller_vars, tracker_vars, imu_vars, local, ret, spin_calls,
                  output, history_vars >>

\* spinOnce(input): one atomic load of frontend_state_, then the call of the
\* handler the switch selects; the handler's return is spinOnce's return.
\* The default label is LOG(FATAL): no handler is called and the process aborts.
SpinOnce ==
  /\ pc[EST] = "idle"
  /\ spin_calls < MaxSpins
  /\ sw' = frontend_state_
  /\ invoked' = IF SpinOnceDispatch(frontend_state_) = "fatal"
                  THEN << >>
                  ELSE << SpinOnceDispatch(frontend_state_) >>
  /\ pc' = [pc EXCEPT ![EST] = SpinOnceDispatch(frontend_state_)]
  /\ UNCHANGED << controller_vars, tracker_vars, imu_vars, local, ret, spin_calls,
                  output, history_vars >>

InHandler == pc[EST] \in {"bootstrapSpin", "nominalSpin"}

\* A value of the enum's underlying type that is none of its enumerators.
OutOfRangeState == "OutOfRange"

\* A test fixture derived from the front end stores an out-of-range value in
\* the protected member frontend_state_, between two spinOnce calls.
ForceFrontendState ==
  /\ pc[EST] = "idle"
  /\ frontend_state_ \in FrontendState
  /\ frontend_state_' = OutOfRangeState
  /\ UNCHANGED << frame_count_, keyframe_count_, last_keyframe_timestamp_,
                  imu_frontend_, tracker_, tracker_status_summary_, tracker_vars,
                  imu_vars, pc, local, ret, spin_vars, history_vars >>

\* The bootstrap handler has what it needs: it stores Nominal (atomic store).
BootstrapSucceed ==
  /\ pc[EST] = "bootstrapSpin"
  /\ frontend_state_ = "Bootstrap"
  /\ frontend_state_' = "Nominal"
  /\ bias_finalized' = {latest_imu_bias_}
  /\ gravity_finalized' = {n_gravity}
  /\ UNCHANGED << frame_count_, keyframe_count_, last_keyframe_timestamp_,
                  imu_frontend_, tracker_, tracker_status_summary_, tracker_vars,
                  imu_vars, pc, local, ret, spin_vars, observed_nominal, bias_passed >>

\* bootstrapSpin returns: the frame is counted; the frame that completed the
\* bootstrap is the first keyframe.
BootstrapSpinReturn ==
  /\ pc[EST] = "bootstrapSpin"
  /\ frame_count_' = frame_count_ + 1
  /\ output' = "bootstrapSpin"
  /\ IF frontend_state_ = "Nominal"
       THEN /\ keyframe_count_' = keyframe_count_ + 1
            /\ last_keyframe_timestamp_' = frame_count_ + 1
       ELSE UNCHANGED << keyframe_count_, last_keyframe_timestamp_ >>
  /\ spin_calls' = spin_calls + 1
  /\ pc' = [pc EXCEPT ![EST] = "idle"]
  /\ UNCHANGED << frontend_state_, imu_frontend_, tracker_, tracker_status_summary_,
                  tracker_vars, imu_vars, local, ret, sw, invoked, history_vars >>

\* nominalSpin returns: the frame is counted and may be promoted to a keyframe.
NominalSpinReturn(keyframe) ==
  /\ pc[EST] = "nominalSpin"
  /\ frame_count_' = frame_count_ + 1
  /\ output' = "nominalSpin"
  /\ IF keyframe
       THEN /\ keyframe_count_' = keyframe_count_ + 1
            /\ last_keyframe_timestamp_' = frame_count_ + 1
       ELSE UNCHANGED << keyframe_count_, last_keyframe_timestamp_ >>
  /\ spin_calls' = spin_calls + 1
  /\ pc' = [pc EXCEPT ![EST] = "idle"]
  /\ UNCHANGED << frontend_state_, imu_frontend_, tracker_, tracker_status_summary_,
                  tracker_vars, imu_vars, local, ret, sw, invoked, history_vars >>

\* ---------------------------------------------------- outlierRejectionMono
\* gtsam::Rot3::equals
Rot3Equals(R1, R2) == R1 = R2

\* A condition that forgets to test the rotation against the identity.
UseGivenRotation_FlagOnly(flag, keyframe_R_cur_frame) == flag

\* The condition of the if: the 2-point kernel is eligible and a prior is given.
UseGivenRotation(flag, keyframe_R_cur_frame) ==
  flag /\ ~Rot3Equals(keyframe_R_cur_frame, Rot3Identity)

\* A selection that uses the prior rotation only once the front end is Nominal.
KernelsFor_NominalOnly(flag, keyframe_R_cur_frame) ==
  IF flag /\ keyframe_R_cur_frame # Rot3Identity /\ frontend_state_ = "Nominal"
    THEN << "2point" >>
    ELSE << "5point" >>

\* The kernels the call runs, in order.
KernelsFor(flag, keyframe_R_cur_frame) ==
  IF UseGivenRotation(flag, keyframe_R_cur_frame)
    THEN << "2point" >>
    ELSE << "5point" >>

\* A pass that writes lkf_T_k_mono_ whatever the status.
PoseOverwritten_Always(sp) == TRUE

\* The condition under which the pass writes lkf_T_k_mono_.
PoseOverwritten(sp) == sp[1] = "VALID"

\* A bookkeeping that records the status inside the VALID branch only.
SummaryAfter_StatusInsideIf(summary, sp) ==
  IF sp[1] = "VALID"
    THEN [kfTrackingStatus_mono_ |-> sp[1], lkf_T_k_mono_ |-> sp[2]]
    ELSE summary

\* The summary after the bookkeeping of a pass whose kernel returned sp.
SummaryAfter(summary, sp) ==
  [kfTrackingStatus_mono_ |-> sp[1],
   lkf_T_k_mono_ |-> IF PoseOverwritten(sp) THEN sp[2] ELSE summary.lkf_T_k_mono_]

\* A pass that aborts when the kernel reports anything but VALID.
AfterOutlierRejection_CheckValid(sp, at) ==
  IF sp[1] = "VALID" THEN at ELSE "fatal"

\* Where the estimation thread is after the pass whose kernel returned sp: the
\* function returns to the handler that called it, at the place of the call.
AfterOutlierRejection(sp, at) == at

\* outlierRejectionMono(keyframe_R_cur_frame, frame_lkf, frame_k, status_pose_mono)
\* called by a handler with a non-null status_pose_mono; sp is the pair the
\* kernel returns.
OutlierRejectionMono(keyframe_R_cur_frame, sp) ==
  /\ InHandler
  /\ tracker_ = "set"
  /\ kernels_run' = KernelsFor(ransac_use_2point_mono_, keyframe_R_cur_frame)
  /\ status_pose_mono' = sp
  /\ tracker_status_summary_' = SummaryAfter(tracker_status_summary_, sp)
  /\ pose_origin' = IF PoseOverwritten(sp) THEN "latest"
                     ELSE IF pose_origin = "ctor" THEN "ctor" ELSE "earlier"
  /\ selections' = selections \cup
       { [flag |-> ransac_use_2point_mono_, rot |-> keyframe_R_cur_frame,
          state |-> frontend_state_,
          kernels |-> KernelsFor(ransac_use_2point_mono_, keyframe_R_cur_frame)] }
  /\ pc' = [pc EXCEPT ![EST] = AfterOutlierRejection(sp, pc[EST])]
  /\ UNCHANGED << frontend_state_, frame_count_, keyframe_count_,
                  last_keyframe_timestamp_, imu_frontend_, tracker_,
                  ransac_use_2point_mono_, imu_vars, local, ret, spin_vars,
                  history_vars >>

\* A pass that tests status_pose_mono only after the kernel has run.
KernelsBeforeNullCheck_CheckLast(flag, keyframe_R_cur_frame) ==
  KernelsFor(flag, keyframe_R_cur_frame)

\* The kernels that run before CHECK_NOTNULL(status_pose_mono): the check is the
\* first statement of the function.
KernelsBeforeNullCheck(flag, keyframe_R_cur_frame) == << >>

\* outlierRejectionMono called with status_pose_mono == nullptr: CHECK_NOTNULL
\* fails and aborts the process.
OutlierRejectionMonoNull(keyframe_R_cur_frame) ==
  /\ InHandler
  /\ kernels_run' = KernelsBeforeNullCheck(ransac_use_2point_mono_, keyframe_R_cur_frame)
  /\ pc' = [pc EXCEPT ![EST] = "fatal"]
  /\ UNCHANGED << controller_vars, ransac_use_2point_mono_, status_pose_mono,
                  pose_origin, selections, imu_vars, local, ret, spin_vars,
                  history_vars >>

\* ------------------------------------------------------------- ImuFrontEnd
\* ImuFrontEnd::updateBias and ImuFrontEnd::getCurrentImuBias hold
\* imu_bias_mutex_ while they copy the two halves of the bias.

\* A body that resets the pre-integration before it updates the bias.
UpdateAndResetSteps_ResetFirst ==
  << "resetIntegrationWithCachedBias", "updateBias" >>

\* The two calls of updateAndResetImuBias's body, in order.
UpdateAndResetSteps == << "updateBias", "resetIntegrationWithCachedBias" >>

\* Where the estimation thread continues when a call of the body returns: in
\* the body's second call, or back in bootstrapSpin.
AfterUpdateAndResetStep(step) ==
  IF step = UpdateAndResetSteps[1] THEN UpdateAndResetSteps[2] ELSE "bootstrapSpin"

\* updateBias, first half: takes the mutex and stores the accelerometer bias.
UpdateBiasLock(t) ==
  /\ pc[t] = "updateBias"
  /\ imu_bias_mutex_ = "free"
  /\ imu_bias_mutex_' = t
  /\ latest_imu_bias_' = << local[t][1], latest_imu_bias_[2] >>
  /\ pc' = [pc EXCEPT ![t] = "updateBias_2"]
  /\ UNCHANGED << controller_vars, tracker_vars, pim_bias, n_gravity, local, ret,
                  spin_vars, history_vars >>

\* updateBias, second half: stores the gyroscope bias, releases the mutex and
\* returns: to the caller thread, or into updateAndResetImuBias's second call.
UpdateBiasStore(t) ==
  /\ pc[t] = "updateBias_2"
  /\ imu_bias_mutex_ = t
  /\ imu_bias_mutex_' = "free"
  /\ latest_imu_bias_' = << latest_imu_bias_[1], local[t][2] >>
  /\ bias_finalized' = IF frontend_state_ = "Nominal"
                         THEN bias_finalized \cup {<< latest_imu_bias_[1], local[t][2] >>}
                         ELSE bias_finalized
  /\ pc' = [pc EXCEPT ![t] = IF t = EST THEN AfterUpdateAndResetStep("updateBias")
                                        ELSE "idle"]
  /\ local' = IF t = EST /\ AfterUpdateAndResetStep("updateBias") # "bootstrapSpin"
              THEN local
              ELSE [local EXCEPT ![t] = NoValue]
  /\ ret' = IF t = EST THEN ret
            ELSE [ret EXCEPT ![t] = [op |-> "updateImuBias", val |-> NoValue]]
  /\ UNCHANGED << controller_vars, tracker_vars, pim_bias, n_gravity, spin_vars,
                  observed_nominal, bias_passed, gravity_finalized >>

\* getCurrentImuBias, first half: takes the mutex and copies the accelerometer bias.
GetBiasLock(t) ==
  /\ pc[t] = "getCurrentImuBias"
  /\ imu_bias_mutex_ = "free"
  /\ imu_bias_mutex_' = t
  /\ local' = [local EXCEPT ![t] = latest_imu_bias_[1]]
  /\ pc' = [pc EXCEPT ![t] = "getCurrentImuBias_2"]
  /\ UNCHANGED << controller_vars, tracker_vars, latest_imu_bias_, pim_bias,
                  n_gravity, ret, spin_vars, history_vars >>

\* An accessor that returns the bias given at construction.
ReturnedImuBias_Initial(imu_bias) == ImuBiasInitial

\* What VisionFrontEnd::getCurrentImuBias returns of the collaborator's copy.
ReturnedImuBias(imu_bias) == imu_bias

\* getCurrentImuBias, second half: copies the gyroscope bias, releases the mutex
\* and returns the copy.
GetBiasLoad(t) ==
  /\ pc[t] = "getCurrentImuBias_2"
  /\ imu_bias_mutex_ = t
  /\ imu_bias_mutex_' = "free"
  /\ ret' = [ret EXCEPT ![t] =
               [op |-> "getCurrentImuBias",
                val |-> ReturnedImuBias(<< local[t], latest_imu_bias_[2] >>)]]
  /\ local' = [local EXCEPT ![t] = NoValue]
  /\ pc' = [pc EXCEPT ![t] = "idle"]
  /\ UNCHANGED << controller_vars, tracker_vars, latest_imu_bias_, pim_bias,
                  n_gravity, spin_vars, history_vars >>

\* ImuFrontEnd::resetIntegrationWithCachedBias, under the mutex: the
\* pre-integration restarts with the cached bias.
ResetIntegrationWithCachedBias ==
  /\ pc[EST] = "resetIntegrationWithCachedBias"
  /\ imu_bias_mutex_ = "free"
  /\ pim_bias' = latest_imu_bias_
  /\ pc' = [pc EXCEPT
             ![EST] = AfterUpdateAndResetStep("resetIntegrationWithCachedBias")]
  /\ local' = IF AfterUpdateAndResetStep("resetIntegrationWithCachedBias") # "bootstrapSpin"
              THEN local
              ELSE [local EXCEPT ![EST] = NoValue]
  /\ UNCHANGED << controller_vars, tracker_vars, latest_imu_bias_, n_gravity,
                  imu_bias_mutex_, ret, spin_vars, history_vars >>

\* ------------------------------------------------- accessors of the controller
\* A forwarding that passes the accelerometer half only.
ForwardedImuBias_AccOnly(imu_bias) == << imu_bias[1], ImuBiasInitial[2] >>

\* The value updateImuBias / updateAndResetImuBias hands to updateBias.
ForwardedImuBias(imu_bias) == imu_bias

\* updateImuBias(imu_bias), from a caller thread: forwards to updateBias.
UpdateImuBias(t, imu_bias) ==
  /\ Constructed
  /\ pc[t] = "idle"
  /\ imu_frontend_ = "set"
  /\ local' = [local EXCEPT ![t] = ForwardedImuBias(imu_bias)]
  /\ bias_passed' = bias_passed \cup {imu_bias}
  /\ pc' = [pc EXCEPT ![t] = "updateBias"]
  /\ ret' = [ret EXCEPT ![t] = NoReturn]
  /\ UNCHANGED << controller_vars, tracker_vars, imu_vars, spin_vars,
                  observed_nominal, bias_finalized, gravity_finalized >>

\* updateAndResetImuBias(imu_bias), from the bootstrap handler: updateBias, then
\* resetIntegrationWithCachedBias.
UpdateAndResetImuBias(imu_bias) ==
  /\ pc[EST] = "bootstrapSpin"
  /\ frontend_state_ = "Bootstrap"
  /\ imu_frontend_ = "set"
  /\ local' = [local EXCEPT ![EST] = ForwardedImuBias(imu_bias)]
  /\ bias_passed' = bias_passed \cup {imu_bias}
  /\ pc' = [pc EXCEPT ![EST] = UpdateAndResetSteps[1]]
  /\ UNCHANGED << controller_vars, tracker_vars, imu_vars, ret, spin_vars,
                  observed_nominal, bias_finalized, gravity_finalized >>

\* getCurrentImuBias(), from a caller thread: forwards to the collaborator.
GetCurrentImuBias(t) ==
  /\ Constructed
  /\ pc[t] = "idle"
  /\ imu_frontend_ = "set"
  /\ pc' = [pc EXCEPT ![t] = "getCurrentImuBias"]
  /\ ret' = [ret EXCEPT ![t] = NoReturn]
  /\ UNCHANGED << controller_vars, tracker_vars, imu_vars, local, spin_vars,
                  history_vars >>

\* A comparison with the wrong sense.
IsInitializedResult_Inverted(s) == s = "Bootstrap"

\* The value isInitialized returns for the lifecycle state it loads.
IsInitializedResult(s) == s # "Bootstrap"

\* isInitialized(), from a caller thread: one atomic load.
IsInitialized(t) ==
  /\ Constructed
  /\ pc[t] = "idle"
  /\ ret' = [ret EXCEPT ![t] =
               [op |-> "isInitialized", val |-> IsInitializedResult(frontend_state_)]]
  /\ observed_nominal' =
       [observed_nominal EXCEPT ![t] = @ \/ IsInitializedResult(frontend_state_)]
  /\ UNCHANGED << controller_vars, tracker_vars, imu_vars, pc, local, spin_vars,
                  bias_passed, bias_finalized, gravity_finalized >>

\* resetGravity(reset_value), from the bootstrap handler: forwards to
\* resetPreintegrationGravity, which stores under the mutex.
ResetGravity(reset_value) ==
  /\ pc[EST] = "bootstrapSpin"
  /\ frontend_state_ = "Bootstrap"
  /\ imu_frontend_ = "set"
  /\ imu_bias_mutex_ = "free"
  /\ n_gravity' = reset_value
  /\ UNCHANGED << controller_vars, tracker_vars, latest_imu_bias_, pim_bias,
                  imu_bias_mutex_, pc, local, ret, spin_vars, history_vars >>

\* A getGravity that answers from a copy taken at construction.
GetGravity_Cached(t) ==
  /\ Constructed
  /\ pc[t] = "idle"
  /\ imu_frontend_ = "set"
  /\ imu_bias_mutex_ = "free"
  /\ ret' = [ret EXCEPT ![t] = [op |-> "getGravity", val |-> GravityInitial]]
  /\ UNCHANGED << controller_vars, tracker_vars, imu_vars, pc, local, spin_vars,
                  history_vars >>

\* getGravity(), on behalf of a caller thread: forwards to
\* getPreintegrationGravity, which loads under the mutex.
GetGravity(t) ==
  /\ Constructed
  /\ pc[t] = "idle"
  /\ imu_frontend_ = "set"
  /\ imu_bias_mutex_ = "free"
  /\ ret' = [ret EXCEPT ![t] = [op |-> "getGravity", val |-> n_gravity]]
  /\ UNCHANGED << controller_vars, tracker_vars, imu_vars, pc, local, spin_vars,
                  history_vars >>

\* getImuFrontEndParams(), from a caller thread: forwards to getGtsamImuParams.
GetImuFrontEndParams(t) ==
  /\ Constructed
  /\ pc[t] = "idle"
  /\ imu_frontend_ = "set"
  /\ ret' = [ret EXCEPT ![t] = [op |-> "getImuFrontEndParams", val |-> "imu_params"]]
  /\ UNCHANGED << controller_vars, tracker_vars, imu_vars, pc, local, spin_vars,
                  history_vars >>

\* A printTrackingStatus that counts a frame for every line it logs.
PrintTrackingStatus_CountsFrame(t) ==
  /\ Constructed
  /\ pc[t] = "idle"
  /\ ret' = [ret EXCEPT ![t] = [op |-> "printTrackingStatus", val |-> NoValue]]
  /\ frame_count_' = frame_count_ + 1
  /\ UNCHANGED << frontend_state_, keyframe_count_, last_keyframe_timestamp_,
                  imu_frontend_, tracker_, tracker_status_summary_, tracker_vars,
                  imu_vars, pc, local, spin_vars, history_vars >>

\* printTrackingStatus(status, type), static: writes a log line.
PrintTrackingStatus(t) ==
  /\ Constructed
  /\ pc[t] = "idle"
  /\ ret' = [ret EXCEPT ![t] = [op |-> "printTrackingStatus", val |-> NoValue]]
  /\ UNCHANGED << controller_vars, tracker_vars, imu_vars, pc, local, spin_vars,
                  history_vars >>

\* getTrackerInfo(), on the estimation thread inside a handler: a copy of
\* tracker_->debug_info_.
GetTrackerInfo ==
  /\ InHandler
  /\ tracker_ = "set"
  /\ ret' = [ret EXCEPT ![EST] = [op |-> "getTrackerInfo", val |-> "debug_info_"]]
  /\ UNCHANGED << controller_vars, tracker_vars, imu_vars, pc, local, spin_vars,
                  history_vars >>

\* ------------------------------------------------------------ specification
\* Inputs of the specification that runs every operation together.
FewRotations == {"rotZ30"}
FewResults == {<< "VALID", 1 >>, << "INVALID", 2 >>}
FewBiases == {<< 1, 1 >>}
FewGravities == {1}

\* spinOnce and the two handlers, on the estimation thread.
LifecycleStep ==
  \/ DerivedConstructor
  \/ SpinOnce
  \/ BootstrapSucceed
  \/ BootstrapSpinReturn
  \/ \E keyframe \in BOOLEAN : NominalSpinReturn(keyframe)

\* Outlier rejection, called by a handler.
TrackerStep(RR, SP) ==
  \E R \in RR, sp \in SP : OutlierRejectionMono(R, sp)

\* Bias and gravity writes of the bootstrap handler.
ImuBootstrapStep(BB, GG) ==
  \/ \E b \in BB : UpdateAndResetImuBias(b)
  \/ UpdateBiasLock(EST)
  \/ UpdateBiasStore(EST)
  \/ ResetIntegrationWithCachedBias
  \/ \E g \in GG : ResetGravity(g)

\* The accessors, called by another thread.
CallerStep(t, BB) ==
  \/ IsInitialized(t)
  \/ \E b \in BB : UpdateImuBias(t, b)
  \/ UpdateBiasLock(t)
  \/ UpdateBiasStore(t)
  \/ GetCurrentImuBias(t)
  \/ GetBiasLock(t)
  \/ GetBiasLoad(t)
  \/ GetGravity(t)

\* The read-only diagnostics.
DiagnosticStep ==
  \/ GetTrackerInfo
  \/ \E t \in CallerThreads : GetImuFrontEndParams(t) \/ PrintTrackingStatus(t)

\* Every operation, with few input values.
Next ==
  \/ LifecycleStep
  \/ DiagnosticStep
  \/ TrackerStep(FewRotations, FewResults)
  \/ ImuBootstrapStep(FewBiases, FewGravities)
  \/ \E t \in CallerThreads : CallerStep(t, FewBiases)

Spec == Init /\ [][Next]_vars

\* The estimation thread alone, with every rotation and every kernel result.
NextTracker ==
  \/ LifecycleStep
  \/ TrackerStep(Rot3, TrackingStatus \X Poses)

SpecTracker == Init /\ [][NextTracker]_vars

\* The estimation thread and the caller threads on the IMU collaborator, with
\* every bias and gravity value.
NextImu ==
  \/ LifecycleStep
  \/ ImuBootstrapStep(ImuBiasInputs, GravityInputs)
  \/ \E t \in CallerThreads : CallerStep(t, ImuBiasInputs)

SpecImu == Init /\ [][NextImu]_vars

\* The bootstrap handler's bias and gravity writes with no other thread running
\* (the single-threaded bootstrap).
NextBootstrapAlone ==
  \/ LifecycleStep
  \/ ImuBootstrapStep(ImuBiasInputs, GravityInputs)

SpecBootstrapAlone == Init /\ [][NextBootstrapAlone]_vars

\* The estimation thread with the two ways into the fatal path: an out-of-range
\* lifecycle state at spinOnce and a null status_pose_mono.  A caller thread
\* polls isInitialized.
NextFatal ==
  \/ LifecycleStep
  \/ ForceFrontendState
  \/ TrackerStep(FewRotations, FewResults)
  \/ \E R \in Rot3 : OutlierRejectionMonoNull(R)
  \/ \E t \in CallerThreads : IsInitialized(t)

SpecFatal == Init /\ [][NextFatal]_vars

\* The steps of thread t inside an ImuFrontEnd call.
ImuCallStep(t) ==
  \/ UpdateBiasLock(t)
  \/ UpdateBiasStore(t)
  \/ (t # EST /\ (GetBiasLock(t) \/ GetBiasLoad(t)))
  \/ (t = EST /\ ResetIntegrationWithCachedBias)

\* SpecImu with the scheduling of the threads: a thread inside an ImuFrontEnd
\* call keeps running, and a thread that requests imu_bias_mutex_ gets it when
\* the mutex is free again and again (no thread is starved of the mutex).
SpecImuFair ==
  /\ SpecImu
  /\ \A t \in Threads : SF_vars(ImuCallStep(t))

\* ------------------------------------------------------------------ claims
AllRotations == Rot3
AllResults == TrackingStatus \X Poses
EstInCall == pc[EST] \notin {"ctor", "idle"}
BootstrapPcs == {"bootstrapSpin", "updateBias", "updateBias_2",
                 "resetIntegrationWithCachedBias"}

\* C1: the lifecycle state starts at Bootstrap, every change of it is the step
\* Bootstrap -> Nominal, and once it is Nominal it stays Nominal, whatever
\* operations are interleaved.
C1_LifecycleMonotone ==
  /\ frontend_state_ = "Bootstrap"
  /\ [][ /\ (frontend_state_' # frontend_state_
               => frontend_state_ = "Bootstrap" /\ frontend_state_' = "Nominal")
         /\ (frontend_state_ = "Nominal" => frontend_state_' = "Nominal") ]_vars

\* C1 witness: the state is Nominal, a later spinOnce call is in flight and a
\* caller thread has completed an accessor call.
C1_Witness ==
  /\ frontend_state_ = "Nominal"
  /\ pc[EST] = "nominalSpin"
  /\ spin_calls >= 2
  /\ sw = "Nominal"
  /\ kernels_run # << >>
  /\ \E t \in CallerThreads : ret[t].op = "getCurrentImuBias"

\* C2: a spinOnce call invokes exactly one handler, the one for the value its
\* single read returned (bootstrapSpin for Bootstrap, nominalSpin for
\* Nominal), stays in that handler also when the state becomes Nominal
\* meanwhile, and returns that handler's output.
C2_OneHandlerPerCall ==
  /\ (EstInCall \/ spin_calls > 0) =>
       /\ Len(invoked) = 1
       /\ sw \in FrontendState
       /\ (sw = "Bootstrap" => invoked[1] = "bootstrapSpin")
       /\ (sw = "Nominal" => invoked[1] = "nominalSpin")
  /\ (pc[EST] \in BootstrapPcs => sw = "Bootstrap")
  /\ (pc[EST] = "nominalSpin" => sw = "Nominal")
  /\ (pc[EST] = "idle" /\ spin_calls > 0 => output = invoked[1])

\* C2 witness: a call that read Bootstrap has returned the bootstrap handler's
\* output although the state became Nominal during the call.
C2_Witness ==
  /\ pc[EST] = "idle"
  /\ sw = "Bootstrap"
  /\ frontend_state_ = "Nominal"
  /\ invoked = << "bootstrapSpin" >>
  /\ output = "bootstrapSpin"

\* C3: every outlierRejectionMono call runs exactly one kernel: the 2-point
\* kernel iff ransac_use_2point_mono_ holds and the prior rotation is not the
\* identity, the 5-point kernel otherwise.
C3_KernelSelection ==
  [][ \A R \in AllRotations, sp \in AllResults :
        OutlierRejectionMono(R, sp) =>
          kernels_run' = IF ransac_use_2point_mono_ /\ R # Rot3Identity
                           THEN << "2point" >>
                           ELSE << "5point" >> ]_vars

\* C3 witness: with the flag set, the identity selected the 5-point kernel and
\* a genuine prior the 2-point kernel.
C3_Witness ==
  /\ ransac_use_2point_mono_
  /\ \E a \in selections : a.rot = Rot3Identity /\ a.kernels = << "5point" >>
  /\ \E a \in selections : a.rot # Rot3Identity /\ a.kernels = << "2point" >>
  /\ kernels_run = << "2point" >>

\* C4: after every outlierRejectionMono call the summary's mono status is the
\* status the kernel returned; the summary's pose is the returned pose when
\* that status is VALID and its value before the call otherwise.
C4_SummaryBookkeeping ==
  [][ \A R \in AllRotations, sp \in AllResults :
        OutlierRejectionMono(R, sp) =>
          /\ tracker_status_summary_'.kfTrackingStatus_mono_ = sp[1]
          /\ tracker_status_summary_'.lkf_T_k_mono_ =
               IF sp[1] = "VALID" THEN sp[2]
               ELSE tracker_status_summary_.lkf_T_k_mono_ ]_vars

\* C4 witness: a non-VALID pass has left an earlier pose in place, different
\* from the pose that pass returned.
C4_Witness ==
  /\ tracker_status_summary_.kfTrackingStatus_mono_ = "FEW_MATCHES"
  /\ status_pose_mono[1] = "FEW_MATCHES"
  /\ tracker_status_summary_.lkf_T_k_mono_ # PoseDefault
  /\ tracker_status_summary_.lkf_T_k_mono_ # status_pose_mono[2]

\* C5 as stated: the summary's pose is the pose of the most recent pass iff the
\* status is VALID, and a pose of an earlier pass is never held alongside a
\* status that is not its own.
C5_Original ==
  /\ (tracker_status_summary_.kfTrackingStatus_mono_ = "VALID"
        <=> pose_origin = "latest")
  /\ pose_origin # "earlier"

\* C5 amended: the summary's pose is the pose of the most recent pass iff the
\* status is VALID; after a non-VALID pass the pose is not cleared, the
\* summary keeps the pose of an earlier pass (or the default pose) next to the
\* newer non-VALID status.
C5_PoseFreshIffValid ==
  /\ (tracker_status_summary_.kfTrackingStatus_mono_ = "VALID"
        <=> pose_origin = "latest")
  /\ (pose_origin = "latest"
        => tracker_status_summary_.lkf_T_k_mono_ = status_pose_mono[2])
  /\ (pose_origin = "ctor"
        => tracker_status_summary_.lkf_T_k_mono_ = PoseDefault)
  /\ (pose_origin = "earlier"
        => tracker_status_summary_.kfTrackingStatus_mono_ # "VALID")

\* C5 witness: a VALID pass followed by a non-VALID pass: the earlier pose is
\* held with the status INVALID.
C5_Witness ==
  /\ pose_origin = "earlier"
  /\ tracker_status_summary_.kfTrackingStatus_mono_ = "INVALID"
  /\ tracker_status_summary_.lkf_T_k_mono_ # status_pose_mono[2]

\* C6: both counters start at 0 and never decrease; frame_count_ is the
\* number of spinOnce calls that have returned, and
\* 0 <= keyframe_count_ <= frame_count_.
C6_Counters ==
  /\ frame_count_ = 0 /\ keyframe_count_ = 0
  /\ [](frame_count_ = spin_calls)
  /\ [](0 <= keyframe_count_ /\ keyframe_count_ <= frame_count_)
  /\ [][frame_count_' >= frame_count_ /\ keyframe_count_' >= keyframe_count_]_vars

\* C6 witness: bootstrap and nominal calls have returned, some promoted to
\* keyframes and some not.
C6_Witness ==
  /\ pc[EST] = "idle"
  /\ spin_calls = MaxSpins
  /\ frame_count_ = MaxSpins
  /\ keyframe_count_ > 0
  /\ keyframe_count_ < frame_count_
  /\ output = "nominalSpin"

\* C7: the kernel selected is a function of the flag and the prior rotation
\* alone: two selections with the same flag and rotation chose the same
\* kernel, whatever the lifecycle state, the counters and the summary were;
\* the identity selects the 5-point kernel for both values of the flag.
C7_SelectionDeterministic ==
  /\ \A a, b \in selections :
       (a.flag = b.flag /\ a.rot = b.rot) => a.kernels = b.kernels
  /\ \A a \in selections : a.rot = Rot3Identity => a.kernels = << "5point" >>

\* C7 witness: the same flag and rotation were used in Bootstrap and in
\* Nominal, for the identity and for a genuine prior.
C7_Witness ==
  /\ ransac_use_2point_mono_
  /\ \A R \in Rot3 : \A st \in FrontendState :
       \E a \in selections : a.rot = R /\ a.state = st

C9_BootstrapStateVisible ==
  [][ \A t \in CallerThreads :
        /\ (GetBiasLoad(t) /\ observed_nominal[t]
              => ret'[t].val \in bias_finalized)
        /\ (GetGravity(t) /\ observed_nominal[t]
              => ret'[t].val \in gravity_finalized) ]_vars

\* C9 witness: the bootstrap handler replaced the initial bias and gravity, and
\* a thread that observed Nominal has read the bias the handler wrote.
C9_Witness ==
  \E t \in CallerThreads :
    /\ observed_nominal[t]
    /\ pim_bias # ImuBiasInitial
    /\ n_gravity # GravityInitial
    /\ ret[t].op = "getCurrentImuBias"
    /\ ret[t].val = pim_bias
    /\ bias_finalized = {pim_bias}

\* A thread inside an ImuFrontEnd call can take its next step, or waits for
\* the mutex while its holder can take the step that releases it.
CanProgress(t) ==
  \/ ENABLED (UpdateBiasLock(t) \/ UpdateBiasStore(t) \/ GetBiasLock(t)
                \/ GetBiasLoad(t))
  \/ /\ t = EST
     /\ ENABLED ResetIntegrationWithCachedBias
  \/ /\ imu_bias_mutex_ \in Threads \ {t}
     /\ ENABLED (UpdateBiasStore(imu_bias_mutex_) \/ GetBiasLoad(imu_bias_mutex_))

ImuCallPcs == {"updateBias", "updateBias_2", "getCurrentImuBias",
               "getCurrentImuBias_2", "resetIntegrationWithCachedBias"}

\* No call in flight is stuck, and no returned bias is a mix of two values.
NoDeadlockNoTornRead ==
  /\ \A t \in Threads : pc[t] \in ImuCallPcs => CanProgress(t)
  /\ \A t \in CallerThreads :
       ret[t].op = "getCurrentImuBias" =>
         ret[t].val \in {ImuBiasInitial} \cup bias_passed

\* C10: with getCurrentImuBias and updateImuBias called from another thread
\* while spinOnce runs, no state is a deadlock, every bias call in flight
\* eventually returns, and every bias getCurrentImuBias returned is the
\* initial bias or a whole value passed to an update: never a mix.
C10_NoDeadlockNoTornRead ==
  /\ []NoDeadlockNoTornRead
  /\ \A t \in Threads : (pc[t] \in ImuCallPcs) ~> (pc[t] \notin ImuCallPcs)

\* C10 witness: the caller's update waits for the mutex that the estimation
\* thread holds in the middle of its own update, with the stored bias half
\* written.
C10_Witness ==
  /\ imu_bias_mutex_ = EST
  /\ pc[EST] = "updateBias_2"
  /\ latest_imu_bias_[1] # latest_imu_bias_[2]
  /\ \E t \in CallerThreads : pc[t] = "getCurrentImuBias"

\* C11: a spinOnce call that reads a lifecycle state that is neither Bootstrap
\* nor Nominal takes the fatal path: no handler is invoked, no output is
\* returned, and no operation of any thread runs afterwards.
C11_OutOfRangeIsFatal ==
  /\ sw = NoValue
  /\ [][ /\ (SpinOnce /\ frontend_state_ \notin FrontendState
               => /\ pc'[EST] = "fatal"
                  /\ invoked' = << >>
                  /\ output' = output
                  /\ spin_calls' = spin_calls)
         /\ pc[EST] # "fatal" ]_vars

\* C11 witness: after a completed call the state was forced out of range, the
\* next spinOnce read it and the process is on the fatal path.
C11_Witness ==
  /\ pc[EST] = "fatal"
  /\ sw = OutOfRangeState
  /\ spin_calls > 0
  /\ invoked = << >>

\* C12: outlierRejectionMono called with a null status_pose_mono aborts at the
\* call boundary: no kernel has run and the summary's status and pose, and the
\* rest of the controller's state, keep their previous values.
C12_NullResultIsFatal ==
  [][ \A R \in Rot3 :
        OutlierRejectionMonoNull(R)
          => /\ pc'[EST] = "fatal"
             /\ kernels_run' = << >>
             /\ tracker_status_summary_' = tracker_status_summary_
             /\ status_pose_mono' = status_pose_mono
             /\ UNCHANGED controller_vars ]_vars

\* C12 witness: a pass with a VALID result has written the summary, a later
\* call with a null pointer has aborted the process and the summary is as the
\* earlier pass left it.
C12_Witness ==
  /\ pc[EST] = "fatal"
  /\ sw \in FrontendState
  /\ kernels_run = << >>
  /\ tracker_status_summary_.kfTrackingStatus_mono_ = "VALID"
  /\ selections # {}

\* C13: whatever status the kernel returns, outlierRejectionMono with a non-null
\* result pointer returns normally into the handler that called it: the status,
\* VALID or not, is recorded in the summary and in the result pair, the process
\* is not aborted and the lifecycle state is not changed.
C13_EveryStatusCompletes ==
  [][ \A R \in AllRotations, sp \in AllResults :
        OutlierRejectionMono(R, sp)
          => /\ pc'[EST] = pc[EST]
             /\ pc'[EST] \in {"bootstrapSpin", "nominalSpin"}
             /\ frontend_state_' = frontend_state_
             /\ tracker_status_summary_'.kfTrackingStatus_mono_ = sp[1]
             /\ status_pose_mono' = sp ]_vars

\* C13 witness: a pass whose kernel reported FEW_MATCHES has completed, the
\* handler that called it has returned and a later spinOnce call is running.
C13_Witness ==
  /\ tracker_status_summary_.kfTrackingStatus_mono_ = "FEW_MATCHES"
  /\ status_pose_mono[1] = "FEW_MATCHES"
  /\ spin_calls > 0
  /\ InHandler

\* C14: as long as the bootstrap has not succeeded the state is Bootstrap, every
\* spinOnce call goes to the bootstrap handler and returns its result with no
\* keyframe made, never the nominal handler and never the fatal path; a further
\* spinOnce call is always possible, however many have returned without
\* success.
C14_BootstrapRetries ==
  /\ [](frontend_state_ = "Bootstrap"
          => /\ pc[EST] \notin {"nominalSpin", "fatal"}
             /\ invoked \in {<< >>, << "bootstrapSpin" >>}
             /\ output \in {NoValue, "bootstrapSpin"}
             /\ keyframe_count_ = 0
             /\ (pc[EST] = "idle" /\ spin_calls < MaxSpins => ENABLED SpinOnce))
  /\ [][ /\ (SpinOnce /\ frontend_state_ = "Bootstrap"
               => pc'[EST] = "bootstrapSpin")
         /\ (BootstrapSpinReturn /\ frontend_state_ = "Bootstrap"
               => /\ frontend_state_' = "Bootstrap"
                  /\ output' = "bootstrapSpin"
                  /\ pc'[EST] = "idle") ]_vars

\* C14 witness: every call allowed by the bound has returned from the
\* bootstrap handler without success and the state is still Bootstrap.
C14_Witness ==
  /\ frontend_state_ = "Bootstrap"
  /\ spin_calls = MaxSpins
  /\ output = "bootstrapSpin"
  /\ pc[EST] = "idle"

\* C15: the controller keeps no copy of the bias or of the gravity.  A write
\* that completes leaves exactly the value passed in the collaborator, only a
\* write changes it, and every read that returns afterwards (getCurrentImuBias,
\* getGravity, the pre-integration reset of the estimation thread) returns the
\* collaborator's value of that moment: no read is older than the latest
\* completed write.
C15_ReadsSeeLatestWrite ==
  [][ /\ \A t \in Threads :
           UpdateBiasStore(t)
             => /\ latest_imu_bias_' = local[t]
                /\ local[t] \in bias_passed
      /\ \A g \in GravityInputs : ResetGravity(g) => n_gravity' = g
      /\ (latest_imu_bias_' # latest_imu_bias_
            => \E t \in Threads : UpdateBiasLock(t) \/ UpdateBiasStore(t))
      /\ (n_gravity' # n_gravity => \E g \in GravityInputs : ResetGravity(g))
      /\ \A t \in CallerThreads :
           /\ GetBiasLoad(t)
                => /\ ret'[t].op = "getCurrentImuBias"
                   /\ ret'[t].val = latest_imu_bias_'
           /\ GetGravity(t)
                => /\ ret'[t].op = "getGravity"
                   /\ ret'[t].val = n_gravity'
      /\ (ResetIntegrationWithCachedBias => pim_bias' = latest_imu_bias_') ]_vars

\* C15 witness: two different biases have been written, the gravity has been
\* reset, and a getCurrentImuBias that returned afterwards holds the second
\* bias, which is the collaborator's current one.
C15_Witness ==
  /\ bias_passed = ImuBiasInputs
  /\ n_gravity # GravityInitial
  /\ imu_bias_mutex_ = "free"
  /\ \E t \in CallerThreads :
       /\ ret[t] # NoReturn
       /\ ret[t].op = "getCurrentImuBias"
       /\ ret[t].val = latest_imu_bias_
       /\ ret[t].val # ImuBiasInitial
       /\ pim_bias # ret[t].val

\* The program counters of the estimation thread inside updateAndResetImuBias.
UpdateAndResetPcs == {"updateBias", "updateBias_2", "resetIntegrationWithCachedBias"}

AccessorStep ==
  \/ \E t \in CallerThreads :
       \/ IsInitialized(t)
       \/ (pc[t] = "idle" /\ pc'[t] = "updateBias"
             /\ \E b \in ImuBiasInputs : UpdateImuBias(t, b))
       \/ GetCurrentImuBias(t)
       \/ GetBiasLock(t)
       \/ GetBiasLoad(t)
       \/ GetGravity(t)
       \/ GetImuFrontEndParams(t)
       \/ PrintTrackingStatus(t)
  \/ \E t \in Threads : UpdateBiasLock(t) \/ UpdateBiasStore(t)
  \/ (pc[EST] = "bootstrapSpin" /\ pc'[EST] = "updateBias"
        /\ \E b \in ImuBiasInputs : UpdateAndResetImuBias(b))
  \/ ResetIntegrationWithCachedBias
  \/ \E g \in GravityInputs : ResetGravity(g)
  \/ GetTrackerInfo

\* C18: updateImuBias, getCurrentImuBias, updateAndResetImuBias, isInitialized,
\* getImuFrontEndParams, getTrackerInfo, printTrackingStatus, resetGravity and
\* getGravity leave the lifecycle state, frame_count_, keyframe_count_,
\* last_keyframe_timestamp_ and the summary unchanged; outlierRejectionMono
\* leaves them unchanged except the summary's mono status and mono pose.
C18_AccessorsFrame ==
  [][ /\ (AccessorStep
            => UNCHANGED << frontend_state_, frame_count_, keyframe_count_,
                            last_keyframe_timestamp_, tracker_status_summary_ >>)
      /\ \A R \in AllRotations, sp \in AllResults :
           OutlierRejectionMono(R, sp)
             => /\ UNCHANGED << frontend_state_, frame_count_, keyframe_count_,
                                last_keyframe_timestamp_ >>
                /\ DOMAIN tracker_status_summary_' = DOMAIN tracker_status_summary_ ]_vars

\* C18 witness: after a frame, a keyframe and a recorded pass, every kind of
\* accessor has been called: the caller thread's last call was
\* printTrackingStatus, the estimation thread's was getTrackerInfo, the bias
\* and the gravity have been written.
C18_Witness ==
  /\ frame_count_ > 0
  /\ keyframe_count_ > 0
  /\ tracker_status_summary_ # TrackerStatusSummaryDefault
  /\ ret[EST].op = "getTrackerInfo"
  /\ \E t \in CallerThreads : ret[t].op = "printTrackingStatus"
  /\ latest_imu_bias_ # ImuBiasInitial
  /\ n_gravity # GravityInitial

\* C19: from the end of construction onward imu_frontend_ and tracker_ are set:
\* every bias, gravity and parameter operation a thread can call finds the IMU
\* front end, and getTrackerInfo and outlierRejectionMono, which run inside a
\* handler, find the tracker; no call made after construction dereferences an
\* unset collaborator.
C19_CollaboratorsSet ==
  pc[EST] # "ctor"
    => /\ imu_frontend_ = "set"
       /\ tracker_ = "set"
       /\ (InHandler
             => /\ ENABLED GetTrackerInfo
                /\ \A R \in FewRotations, sp \in FewResults :
                     ENABLED OutlierRejectionMono(R, sp))
       /\ \A t \in CallerThreads :
            ProcessAlive /\ pc[t] = "idle"
              => /\ ENABLED GetCurrentImuBias(t)
                 /\ ENABLED GetImuFrontEndParams(t)
                 /\ \A b \in FewBiases : ENABLED UpdateImuBias(t, b)

\* C19 witness: after construction the tracker has been dereferenced by a pass
\* and by getTrackerInfo, and the IMU front end by a bias write of the
\* bootstrap handler and by a getGravity of a caller thread.
C19_Witness ==
  /\ pc[EST] \notin {"ctor", "fatal"}
  /\ kernels_run # << >>
  /\ ret[EST].op = "getTrackerInfo"
  /\ pim_bias # ImuBiasInitial
  /\ \E t \in CallerThreads : ret[t].op = "getGravity"

====
